---- MODULE Spec2Model ----
(***************************************************************************)
(* Model of lwc-dev-mobile-core: the AndroidDevice lifecycle and           *)
(* certificate operations (src/common/device/AndroidDevice.ts), the        *)
(* utilities of src/common/Common.ts (Version, CaseInsensitiveStringMap,   *)
(* MapUtils, SetUtils) and the requirement processor.                      *)
(*                                                                         *)
(* Strings are sequences of one-character strings.  Every device object    *)
(* has one logical flow of control (its caller awaits each operation       *)
(* before starting the next, as the design requires of callers); the       *)
(* flows of different devices interleave.  An async method runs up to its  *)
(* first await in the action that calls it, and from one await to the      *)
(* next in the action that resumes it.                                     *)
(***************************************************************************)
EXTENDS Integers, Sequences, FiniteSets, TLC

VARIABLES port, pc, op, result, issued, inflight, deviceCerts, vInput, vResult, vText,
          cmpV1, cmpV2, cmpResult, newerResult, mInput, cmap, mLog,
          fIn, fPred, fOut, rqIn, rqRun

vars == <<port, pc, op, result, issued, inflight, deviceCerts, vInput, vResult, vText,
          cmpV1, cmpV2, cmpResult, newerResult, mInput, cmap, mLog,
          fIn, fPred, fOut, rqIn, rqRun>>

devVars == <<port, pc, op, result, issued, inflight, deviceCerts>>

verVars == <<vInput, vResult, vText>>

cmpVars == <<cmpV1, cmpV2, cmpResult, newerResult>>

\* the variables of the utilities of Common.ts, which no device operation touches
mapVars == <<mInput, cmap, mLog>>

filterVars == <<fIn, fPred, fOut>>

reqVars == <<rqIn, rqRun>>

\* the variables of the utilities of Common.ts and of the requirement
\* processor, which no device operation touches
pureVars == <<verVars, cmpVars, mapVars, filterVars, reqVars>>

(***************************************************************************)
(* Bounds and inputs                                                       *)
(***************************************************************************)
NumPorts == 1

FirstPort == 5554

Ports == {FirstPort + 2 * i : i \in 0..(NumPorts - 1)}

Devices == {"d1", "d2"}

NumCerts == 1

Certs == 1..NumCerts

NoCert == 0

Urls == {<<"u">>}

Targets == {<<"a">>, <<"a", "/", "m">>}

Outputs == {<<>>, <<" ">>, <<"a">>}

\* AndroidDevice.port initial value, the "not booted" sentinel
NoPort == -1

\* AndroidDevice.isPlayStore, a readonly constructor argument
isPlayStore == [d \in Devices |-> d = "d1"]

(***************************************************************************)
(* String helpers                                                          *)
(***************************************************************************)
\* String.prototype.includes
Includes(s, t) == \E i \in 0..(Len(s) - Len(t)) : SubSeq(s, i + 1, i + Len(t)) = t

\* the white space that String.prototype.trim removes
IsSpace(ch) == ch \in {" ", "\t", "\n", "\r"}

RECURSIVE TrimStart(_)
TrimStart(s) == IF s # <<>> /\ IsSpace(Head(s)) THEN TrimStart(Tail(s)) ELSE s

RECURSIVE TrimEnd(_)
TrimEnd(s) == IF s # <<>> /\ IsSpace(s[Len(s)]) THEN TrimEnd(SubSeq(s, 1, Len(s) - 1)) ELSE s

\* String.prototype.trim
Trim(s) == TrimEnd(TrimStart(s))

RECURSIVE UpTo(_, _)
\* target.split(ch)[0]: the text before the first ch
UpTo(s, ch) == IF s = <<>> \/ Head(s) = ch THEN <<>> ELSE <<Head(s)>> \o UpTo(Tail(s), ch)

(***************************************************************************)
(* Collaborators that are not part of the modelled sources                 *)
(***************************************************************************)
\* CryptoUtils.getSubjectHashOld: a fixed-width hexadecimal identifier
HexDigits == <<"0", "1", "2", "3", "4", "5", "6", "7", "8", "9", "a", "b", "c", "d", "e", "f">>

SubjectHashOld(c) == <<HexDigits[((c \div 16) % 16) + 1], HexDigits[(c % 16) + 1]>>

\* the file name `${subjectHash}.0`
CertFileName(c) == SubjectHashOld(c) \o <<".", "0">>

\* ls prints the names of a directory in sorted order, one per line
SortedNames == [i \in 1..NumCerts |-> CertFileName(i)]

RECURSIVE ListFrom(_, _)
ListFrom(names, dir) ==
    IF names = <<>> THEN <<>>
    ELSE (IF Head(names) \in dir THEN Head(names) \o <<"\n">> ELSE <<>>) \o ListFrom(Tail(names), dir)

\* what `ls /data/misc/user/0/cacerts-added` prints for a trust directory
Listing(dir) == ListFrom(SortedNames, dir)

\* a command handed to AndroidUtils, outstanding until it resolves or rejects
Cmd(d, name, p, sw, w, text) ==
    [dev |-> d, cmd |-> name, port |-> p, systemWritable |-> sw, waitForBoot |-> w, text |-> text]

\* the operation a flow is in, or was in last
Call(name, cert) == [name |-> name, cert |-> cert, afterInstall |-> FALSE]

Outstanding(d) == {c \in inflight : c.dev = d}

Step(name, st) == [cmd |-> name, st |-> st, ret |-> 0]

\* the last issued step of a flow resolves (st = "ok") or rejects (st = "fail")
Mark(seq, st) == [seq EXCEPT ![Len(seq)].st = st]

\* the last issued step resolves with the number n
MarkRet(seq, n) == [seq EXCEPT ![Len(seq)].st = "ok", ![Len(seq)].ret = n]

(***************************************************************************)
(* Initial state: freshly constructed devices                              *)
(***************************************************************************)
DevInit ==
    /\ port = [d \in Devices |-> NoPort]
    /\ pc = [d \in Devices |-> "idle"]
    /\ op = [d \in Devices |-> Call("none", NoCert)]
    /\ result = [d \in Devices |-> "none"]
    /\ issued = [d \in Devices |-> <<>>]
    /\ inflight = {}
    /\ deviceCerts = [d \in Devices |-> {}]

VerIdle ==
    /\ vInput = <<>>
    /\ vResult = [tag |-> "none", major |-> 0, minor |-> 0, patch |-> 0]
    /\ vText = <<>>

\* Version.compare not called
CmpIdle ==
    /\ cmpV1 = [kind |-> "none", major |-> 0, minor |-> 0, patch |-> 0, text |-> <<>>]
    /\ cmpV2 = [kind |-> "none", major |-> 0, minor |-> 0, patch |-> 0, text |-> <<>>]
    /\ cmpResult = [tag |-> "none", value |-> 0, message |-> ""]
    /\ newerResult = "none"

\* no CaseInsensitiveStringMap in use: an empty map, nothing parsed, no call made
MapIdle ==
    /\ mInput = [lines |-> <<>>, nl |-> <<"\n">>]
    /\ cmap = {}
    /\ mLog = <<>>

\* MapUtils.filter and SetUtils.filter not called
FilterIdle ==
    /\ fIn = [kind |-> "null", map |-> <<>>, set |-> <<>>]
    /\ fPred = [onMap |-> {}, onSet |-> {}]
    /\ fOut = [map |-> [tag |-> "none", ref |-> "", entries |-> <<>>],
               set |-> [tag |-> "none", ref |-> "", entries |-> <<>>]]

\* RequirementProcessor.execute not called
ReqIdle ==
    /\ rqIn = [nested |-> FALSE, failFast |-> FALSE,
               check |-> [r \in {"A", "B", "B1", "B2", "C"} |-> "pass"]]
    /\ rqRun = [pc |-> "idle", next |-> 0, invoked |-> <<>>, ledger |-> <<>>,
                perRequirement |-> <<>>, allFulfilled |-> FALSE]

Init == DevInit /\ VerIdle /\ CmpIdle /\ MapIdle /\ FilterIdle /\ ReqIdle

(***************************************************************************)
(* AndroidDevice.boot                                                      *)
(***************************************************************************)
\* the policy check left out
PolicyViolationOff(systemWritable, playStore) == FALSE

\* line 73: the writable-system policy check
PolicyViolation(systemWritable, playStore) == systemWritable /\ playStore

\* the body of boot(), up to its await of AndroidUtils.startEmulator
BootBody(d, waitForBoot, systemWritable) ==
    IF PolicyViolation(systemWritable, isPlayStore[d])
    THEN /\ pc' = [pc EXCEPT ![d] = "idle"]
         /\ result' = [result EXCEPT ![d] = "SfError"]
         /\ issued' = [issued EXCEPT ![d] = <<>>]
         /\ UNCHANGED inflight
    ELSE /\ pc' = [pc EXCEPT ![d] = "boot:start"]
         /\ result' = [result EXCEPT ![d] = "pending"]
         /\ issued' = [issued EXCEPT ![d] = <<Step("startEmulator", "pending")>>]
         /\ inflight' = inflight \cup {Cmd(d, "startEmulator", NoPort, systemWritable, waitForBoot, <<>>)}

Boot(d, waitForBoot, systemWritable) ==
    /\ pc[d] = "idle"
    /\ op' = [op EXCEPT ![d] = Call("boot", NoCert)]
    /\ BootBody(d, waitForBoot, systemWritable)
    /\ UNCHANGED <<port, deviceCerts, pureVars>>

\* the port kept in a field shared by all device objects
PortWriteShared(d, p) == [e \in Devices |-> p]

\* line 77: this.port = (the port startEmulator resolved with)
PortWrite(d, p) == [port EXCEPT ![d] = p]

\* the port reset to the sentinel when the start is rejected
PortAfterRejectionReset(d) == [port EXCEPT ![d] = NoPort]

\* line 77: when the await rejects, the assignment to this.port is not made
PortAfterRejection(d) == port

\* startEmulator settles: this.port is assigned only when it resolves
BootResume(d) ==
    /\ pc[d] = "boot:start"
    /\ \E c \in Outstanding(d) :
        /\ c.cmd = "startEmulator"
        /\ inflight' = inflight \ {c}
        /\ \/ \E p \in Ports :
                /\ port' = PortWrite(d, p)
                /\ result' = [result EXCEPT ![d] = "ok"]
                /\ issued' = [issued EXCEPT ![d] = MarkRet(@, p)]
           \/ /\ result' = [result EXCEPT ![d] = "error"]
              /\ issued' = [issued EXCEPT ![d] = Mark(@, "fail")]
              /\ port' = PortAfterRejection(d)
    /\ pc' = [pc EXCEPT ![d] = "idle"]
    /\ UNCHANGED <<op, deviceCerts, pureVars>>

(***************************************************************************)
(* AndroidDevice.reboot                                                    *)
(***************************************************************************)
\* the cold-start test made against 0 instead of the sentinel
NeverBootedZero(p) == p = 0

\* line 86: has the device not been booted yet?
NeverBooted(p) == p = NoPort

\* the reboot command issued without the port of the device
RebootIssuedNoPort(d, waitForBoot) == {Cmd(d, "rebootEmulator", NoPort, FALSE, waitForBoot, <<>>)}

\* line 90: AndroidUtils.rebootEmulator(this.port, waitForBoot)
RebootIssued(d, waitForBoot) == {Cmd(d, "rebootEmulator", port[d], FALSE, waitForBoot, <<>>)}

Reboot(d, waitForBoot) ==
    /\ pc[d] = "idle"
    /\ op' = [op EXCEPT ![d] = Call("reboot", NoCert)]
    /\ IF NeverBooted(port[d])
       THEN BootBody(d, waitForBoot, FALSE)
       ELSE /\ pc' = [pc EXCEPT ![d] = "reboot:reboot"]
            /\ result' = [result EXCEPT ![d] = "pending"]
            /\ issued' = [issued EXCEPT ![d] = <<Step("rebootEmulator", "pending")>>]
            /\ inflight' = inflight \cup RebootIssued(d, waitForBoot)
    /\ UNCHANGED <<port, deviceCerts, pureVars>>

\* a command whose outcome only decides between normal return and a raised error
Settle(d, at, name) ==
    /\ pc[d] = at
    /\ \E c \in Outstanding(d) :
        /\ c.cmd = name
        /\ inflight' = inflight \ {c}
    /\ \/ /\ result' = [result EXCEPT ![d] = "ok"]
          /\ issued' = [issued EXCEPT ![d] = Mark(@, "ok")]
       \/ /\ result' = [result EXCEPT ![d] = "error"]
          /\ issued' = [issued EXCEPT ![d] = Mark(@, "fail")]
    /\ pc' = [pc EXCEPT ![d] = "idle"]

RebootResume(d) ==
    /\ Settle(d, "reboot:reboot", "rebootEmulator")
    /\ UNCHANGED <<op, port, deviceCerts, pureVars>>

(***************************************************************************)
(* AndroidDevice.shutdown                                                  *)
(***************************************************************************)
\* the stop command skipped for a device that is not booted
StopIssuedIfBooted(d) == IF port[d] = NoPort THEN {} ELSE {Cmd(d, "stopEmulator", port[d], FALSE, TRUE, <<>>)}

\* line 98: the stop command is issued whatever the port, and with that port
StopIssued(d) == {Cmd(d, "stopEmulator", port[d], FALSE, TRUE, <<>>)}

Shutdown(d) ==
    /\ pc[d] = "idle"
    /\ op' = [op EXCEPT ![d] = Call("shutdown", NoCert)]
    /\ pc' = [pc EXCEPT ![d] = "shutdown:stop"]
    /\ result' = [result EXCEPT ![d] = "pending"]
    /\ issued' = [issued EXCEPT ![d] = <<Step("stopEmulator", "pending")>>]
    /\ inflight' = inflight \cup StopIssued(d)
    /\ UNCHANGED <<port, deviceCerts, pureVars>>

\* stopEmulator settles; shutdown() has no assignment to this.port
ShutdownResume(d) ==
    /\ Settle(d, "shutdown:stop", "stopEmulator")
    /\ UNCHANGED <<op, port, deviceCerts, pureVars>>

(***************************************************************************)
(* AndroidDevice.openUrl, hasApp, launchApp                                *)
(***************************************************************************)
OpenUrl(d, url) ==
    /\ pc[d] = "idle"
    /\ op' = [op EXCEPT ![d] = Call("openUrl", NoCert)]
    /\ pc' = [pc EXCEPT ![d] = "openUrl:launch"]
    /\ result' = [result EXCEPT ![d] = "pending"]
    /\ issued' = [issued EXCEPT ![d] = <<Step("launchURLIntent", "pending")>>]
    /\ inflight' = inflight \cup {Cmd(d, "launchURLIntent", port[d], FALSE, FALSE, url)}
    /\ UNCHANGED <<port, deviceCerts, pureVars>>

OpenUrlResume(d) ==
    /\ Settle(d, "openUrl:launch", "launchURLIntent")
    /\ UNCHANGED <<op, port, deviceCerts, pureVars>>

\* line 118: target.split('/')[0]
PkgId(target) == UpTo(target, "/")

HasApp(d, target) ==
    /\ pc[d] = "idle"
    /\ op' = [op EXCEPT ![d] = Call("hasApp", NoCert)]
    /\ pc' = [pc EXCEPT ![d] = "hasApp:list"]
    /\ result' = [result EXCEPT ![d] = "pending"]
    /\ issued' = [issued EXCEPT ![d] = <<Step("adb pm list", "pending")>>]
    /\ inflight' = inflight \cup {Cmd(d, "adb pm list", port[d], FALSE, FALSE, PkgId(target))}
    /\ UNCHANGED <<port, deviceCerts, pureVars>>

\* the output tested without being trimmed
HasAppVerdictUntrimmed(out) == IF out # <<>> THEN "true" ELSE "false"

\* line 130: result?.trim() ? true : false
HasAppVerdict(out) == IF Trim(out) # <<>> THEN "true" ELSE "false"

\* lines 121-125: the command resolved with the output out, assigned to result
HasAppResolves(d, out) ==
    /\ result' = [result EXCEPT ![d] = HasAppVerdict(out)]
    /\ issued' = [issued EXCEPT ![d] = Mark(@, "ok")]

\* lines 119, 126-128: the command was rejected, result is still ''
HasAppRejects(d) ==
    /\ result' = [result EXCEPT ![d] = HasAppVerdict(<<>>)]
    /\ issued' = [issued EXCEPT ![d] = Mark(@, "fail")]

HasAppResume(d) ==
    /\ pc[d] = "hasApp:list"
    /\ \E c \in Outstanding(d) :
        /\ c.cmd = "adb pm list"
        /\ inflight' = inflight \ {c}
    /\ \/ \E out \in Outputs : HasAppResolves(d, out)
       \/ HasAppRejects(d)
    /\ pc' = [pc EXCEPT ![d] = "idle"]
    /\ UNCHANGED <<op, port, deviceCerts, pureVars>>

LaunchApp(d, target) ==
    /\ pc[d] = "idle"
    /\ op' = [op EXCEPT ![d] = Call("launchApp", NoCert)]
    /\ pc' = [pc EXCEPT ![d] = "launchApp:launch"]
    /\ result' = [result EXCEPT ![d] = "pending"]
    /\ issued' = [issued EXCEPT ![d] = <<Step("launchAppInBootedEmulator", "pending")>>]
    /\ inflight' = inflight \cup {Cmd(d, "launchAppInBootedEmulator", port[d], FALSE, FALSE, target)}
    /\ UNCHANGED <<port, deviceCerts, pureVars>>

LaunchAppResume(d) ==
    /\ Settle(d, "launchApp:launch", "launchAppInBootedEmulator")
    /\ UNCHANGED <<op, port, deviceCerts, pureVars>>

(***************************************************************************)
(* AndroidDevice.isCertInstalled                                           *)
(***************************************************************************)
\* a call of isCertInstalled; afterInstall records that the call this flow made
\* just before was an installCert of the same certificate that returned normally
Probe(d, cert) ==
    [name |-> "isCertInstalled", cert |-> cert,
     afterInstall |-> (op[d].name = "installCert" /\ op[d].cert = cert /\ result[d] = "ok")]

IsCertInstalled(d, cert) ==
    /\ pc[d] = "idle"
    /\ op' = [op EXCEPT ![d] = Probe(d, cert)]
    /\ pc' = [pc EXCEPT ![d] = "isCert:root"]
    /\ result' = [result EXCEPT ![d] = "pending"]
    /\ issued' = [issued EXCEPT ![d] = <<Step("adb root", "pending")>>]
    /\ inflight' = inflight \cup {Cmd(d, "adb root", port[d], FALSE, FALSE, <<>>)}
    /\ UNCHANGED <<port, deviceCerts, pureVars>>

\* the catch block rethrowing after it logged
ProbeRethrown == "error"

\* lines 168-174: the catch block logs the error and falls through to `return false`
ProbeCaught == "false"

\* lines 159-162: what follows `adb root` once it resolved
AfterRoot(d) == {Cmd(d, "adb ls", port[d], FALSE, FALSE, <<>>)}

\* the listing issued although the root escalation was rejected
AfterRootRejectedLs(d) == {Cmd(d, "adb ls", port[d], FALSE, FALSE, <<>>)}

\* lines 157-168: a rejected `adb root` leaves the try block, no command follows
AfterRootRejected(d) == {}

IsCertInstalledRoot(d) ==
    /\ pc[d] = "isCert:root"
    /\ \E c \in Outstanding(d) :
        /\ c.cmd = "adb root"
        /\ \/ /\ inflight' = (inflight \ {c}) \cup AfterRoot(d)
              /\ issued' = [issued EXCEPT ![d] = Append(Mark(@, "ok"), Step("adb ls", "pending"))]
              /\ pc' = [pc EXCEPT ![d] = "isCert:ls"]
              /\ UNCHANGED result
           \/ /\ inflight' = (inflight \ {c}) \cup AfterRootRejected(d)
              /\ issued' = [issued EXCEPT ![d] = Mark(@, "fail")]
              /\ pc' = [pc EXCEPT ![d] = "idle"]
              /\ result' = [result EXCEPT ![d] = ProbeCaught]
    /\ UNCHANGED <<op, port, deviceCerts, pureVars>>

\* the listing compared with the file name instead of searched for it
ProbeVerdictEqual(listing, fileName) == IF listing = fileName THEN "true" ELSE "false"

\* line 167: result.includes(fileName)
ProbeVerdict(listing, fileName) == IF Includes(listing, fileName) THEN "true" ELSE "false"

IsCertInstalledLs(d) ==
    /\ pc[d] = "isCert:ls"
    /\ \E c \in Outstanding(d) :
        /\ c.cmd = "adb ls"
        /\ inflight' = inflight \ {c}
    /\ \/ /\ result' = [result EXCEPT ![d] = ProbeVerdict(Listing(deviceCerts[d]), CertFileName(op[d].cert))]
          /\ issued' = [issued EXCEPT ![d] = Mark(@, "ok")]
       \/ /\ result' = [result EXCEPT ![d] = ProbeCaught]
          /\ issued' = [issued EXCEPT ![d] = Mark(@, "fail")]
    /\ pc' = [pc EXCEPT ![d] = "idle"]
    /\ UNCHANGED <<op, port, deviceCerts, pureVars>>

(***************************************************************************)
(* AndroidDevice.installCert                                               *)
(***************************************************************************)
\* a rejected step swallowed by a catch block
InstallSwallowed == "ok"

\* an await of installCert rejected: nothing catches, the error leaves the method
InstallRejected == "error"

\* lines 184-191: fs.writeFileSync either throws or is followed by the remount.
\* The temporary file is read only by the push of the same call, so its
\* content is not part of the state: the write is a step of the flow.
InstallCert(d, cert) ==
    /\ pc[d] = "idle"
    /\ op' = [op EXCEPT ![d] = Call("installCert", cert)]
    /\ \/ /\ issued' = [issued EXCEPT ![d] =
                <<Step("writeFileSync", "ok"), Step("mountAsRootWritableSystem", "pending")>>]
          /\ inflight' = inflight \cup {Cmd(d, "mountAsRootWritableSystem", NoPort, FALSE, FALSE, <<>>)}
          /\ pc' = [pc EXCEPT ![d] = "install:mount"]
          /\ result' = [result EXCEPT ![d] = "pending"]
       \/ /\ issued' = [issued EXCEPT ![d] = <<Step("writeFileSync", "fail")>>]
          /\ pc' = [pc EXCEPT ![d] = "idle"]
          /\ result' = [result EXCEPT ![d] = InstallRejected]
          /\ UNCHANGED inflight
    /\ UNCHANGED <<port, deviceCerts, pureVars>>

\* the push not awaited, so that the chmod is issued along with it
AfterMountNoAwait(d, fileName) ==
    {Cmd(d, "adb push", port[d], FALSE, FALSE, fileName), Cmd(d, "adb chmod", port[d], FALSE, FALSE, fileName)}

\* lines 192-196: what follows the remount once it resolved
AfterMount(d, fileName) == {Cmd(d, "adb push", port[d], FALSE, FALSE, fileName)}

InstallCertMount(d) ==
    /\ pc[d] = "install:mount"
    /\ \E c \in Outstanding(d) :
        /\ c.cmd = "mountAsRootWritableSystem"
        /\ \/ /\ inflight' = (inflight \ {c}) \cup AfterMount(d, CertFileName(op[d].cert))
              /\ issued' = [issued EXCEPT ![d] = Append(Mark(@, "ok"), Step("adb push", "pending"))]
              /\ pc' = [pc EXCEPT ![d] = "install:push"]
              /\ UNCHANGED result
           \/ /\ inflight' = inflight \ {c}
              /\ issued' = [issued EXCEPT ![d] = Mark(@, "fail")]
              /\ pc' = [pc EXCEPT ![d] = "idle"]
              /\ result' = [result EXCEPT ![d] = InstallRejected]
    /\ UNCHANGED <<op, port, deviceCerts, pureVars>>

\* the push issued a second time in place of the chmod
AfterPushRepeat(d, fileName) == {Cmd(d, "adb push", port[d], FALSE, FALSE, fileName)}

\* lines 197-201: what follows the push once it resolved
AfterPush(d, fileName) == {Cmd(d, "adb chmod", port[d], FALSE, FALSE, fileName)}

InstallCertPush(d) ==
    /\ pc[d] = "install:push"
    /\ \E c \in Outstanding(d) :
        /\ c.cmd = "adb push"
        /\ \/ /\ inflight' = (inflight \ {c}) \cup AfterPush(d, c.text)
              /\ deviceCerts' = [deviceCerts EXCEPT ![d] = @ \cup {c.text}]
              /\ issued' = [issued EXCEPT ![d] = Append(Mark(@, "ok"), Step("adb chmod", "pending"))]
              /\ pc' = [pc EXCEPT ![d] = "install:chmod"]
              /\ UNCHANGED result
           \/ /\ inflight' = inflight \ {c}
              /\ issued' = [issued EXCEPT ![d] = Mark(@, "fail")]
              /\ pc' = [pc EXCEPT ![d] = "idle"]
              /\ result' = [result EXCEPT ![d] = InstallRejected]
              /\ UNCHANGED deviceCerts
    /\ UNCHANGED <<op, port, pureVars>>

InstallCertChmod(d) ==
    /\ pc[d] = "install:chmod"
    /\ \E c \in Outstanding(d) :
        /\ c.cmd = "adb chmod"
        /\ inflight' = inflight \ {c}
    /\ \/ /\ result' = [result EXCEPT ![d] = "ok"]
          /\ issued' = [issued EXCEPT ![d] = Mark(@, "ok")]
       \/ /\ result' = [result EXCEPT ![d] = InstallRejected]
          /\ issued' = [issued EXCEPT ![d] = Mark(@, "fail")]
    /\ pc' = [pc EXCEPT ![d] = "idle"]
    /\ UNCHANGED <<op, port, deviceCerts, pureVars>>

(***************************************************************************)
(* The device specification                                                *)
(***************************************************************************)
Next ==
    \/ \E d \in Devices, w \in BOOLEAN, sw \in BOOLEAN : Boot(d, w, sw)
    \/ \E d \in Devices : BootResume(d)
    \/ \E d \in Devices, w \in BOOLEAN : Reboot(d, w)
    \/ \E d \in Devices : RebootResume(d)
    \/ \E d \in Devices : Shutdown(d)
    \/ \E d \in Devices : ShutdownResume(d)
    \/ \E d \in Devices, url \in Urls : OpenUrl(d, url)
    \/ \E d \in Devices : OpenUrlResume(d)
    \/ \E d \in Devices, t \in Targets : HasApp(d, t)
    \/ \E d \in Devices : HasAppResume(d)
    \/ \E d \in Devices, t \in Targets : LaunchApp(d, t)
    \/ \E d \in Devices : LaunchAppResume(d)
    \/ \E d \in Devices, k \in Certs : IsCertInstalled(d, k)
    \/ \E d \in Devices : IsCertInstalledRoot(d)
    \/ \E d \in Devices : IsCertInstalledLs(d)
    \/ \E d \in Devices, k \in Certs : InstallCert(d, k)
    \/ \E d \in Devices : InstallCertMount(d)
    \/ \E d \in Devices : InstallCertPush(d)
    \/ \E d \in Devices : InstallCertChmod(d)

Spec == Init /\ [][Next]_vars

(***************************************************************************)
(* Version.from                                                            *)
(***************************************************************************)
MaxLen == 5

VChars == {"0", "1", ".", "-", " "}

VInputs == UNION {[1..n -> VChars] : n \in 0..MaxLen}

Digits == <<"0", "1", "2", "3", "4", "5", "6", "7", "8", "9">>

IsDigit(ch) == \E i \in 1..Len(Digits) : Digits[i] = ch

DigitVal(ch) == (CHOOSE i \in 1..Len(Digits) : Digits[i] = ch) - 1

RECURSIVE ParseInt(_)
\* Number.parseInt(digits, 10)
ParseInt(ds) == IF ds = <<>> THEN 0 ELSE 10 * ParseInt(SubSeq(ds, 1, Len(ds) - 1)) + DigitVal(ds[Len(ds)])

\* the pattern 0|[1-9]\d* matches the l characters of s that start at i
NumAt(s, i, l) ==
    /\ l >= 1
    /\ i + l - 1 <= Len(s)
    /\ \A j \in i..(i + l - 1) : IsDigit(s[j])
    /\ s[i] = "0" => l = 1

\* the pattern [-.] matches the character of s at i
SepAt(s, i) == i <= Len(s) /\ s[i] \in {"-", "."}

\* \k<Separator>: the text captured by the Separator group or, when that
\* group took no part in the match, the empty string
BackrefLen(g2) == g2

\* One way for versionRegex to match the whole of s: Major has lmaj
\* characters, the optional Minor group takes part (g2 = 1) or not, and so
\* does the optional Patch group (g4).
IsMatch(s, m) ==
    /\ NumAt(s, 1, m.lmaj)
    /\ IF m.g2 = 1
       THEN SepAt(s, m.lmaj + 1) /\ NumAt(s, m.lmaj + 2, m.lmin)
       ELSE m.lmin = 0
    /\ LET a == m.lmaj + m.g2 * (1 + m.lmin)
           b == BackrefLen(m.g2)
       IN  /\ IF m.g4 = 1
              THEN /\ b = 1 => (a + 1 <= Len(s) /\ s[a + 1] = s[m.lmaj + 1])
                   /\ NumAt(s, a + b + 1, m.lpat)
              ELSE m.lpat = 0
           /\ a + m.g4 * (b + m.lpat) = Len(s)

Matches(s) ==
    {m \in [lmaj : 1..Len(s), g2 : {0, 1}, lmin : 0..Len(s), g4 : {0, 1}, lpat : 0..Len(s)] : IsMatch(s, m)}

\* the order in which the backtracking matcher tries the ways to match:
\* greedy quantifiers first, an optional group taken before it is skipped
TriedBefore(m, n) ==
    \/ m.lmaj > n.lmaj
    \/ m.lmaj = n.lmaj /\ m.g2 > n.g2
    \/ m.lmaj = n.lmaj /\ m.g2 = n.g2 /\ m.lmin > n.lmin
    \/ m.lmaj = n.lmaj /\ m.g2 = n.g2 /\ m.lmin = n.lmin /\ m.g4 > n.g4
    \/ m.lmaj = n.lmaj /\ m.g2 = n.g2 /\ m.lmin = n.lmin /\ m.g4 = n.g4 /\ m.lpat > n.lpat

NullVersion == [tag |-> "null", major |-> 0, minor |-> 0, patch |-> 0]

NoVersion == [tag |-> "none", major |-> 0, minor |-> 0, patch |-> 0]

\* lines 149-153: the groups of the match as numbers, 0 for a group that is undefined
VersionOf(t, m) ==
    LET a == m.lmaj + m.g2 * (1 + m.lmin)
        b == BackrefLen(m.g2)
    IN  [tag |-> "version",
         major |-> ParseInt(SubSeq(t, 1, m.lmaj)),
         minor |-> IF m.g2 = 1 THEN ParseInt(SubSeq(t, m.lmaj + 2, m.lmaj + 1 + m.lmin)) ELSE 0,
         patch |-> IF m.g4 = 1 THEN ParseInt(SubSeq(t, a + b + 1, a + b + m.lpat)) ELSE 0]

\* Version.from(input)
From(input) ==
    LET t == Trim(input)
        M == Matches(t)
    IN  IF M = {} THEN NullVersion
        ELSE VersionOf(t, CHOOSE m \in M : \A n \in M : n = m \/ TriedBefore(m, n))

RECURSIVE NatToString(_)
\* the decimal digits of a non-negative integer, as a template literal prints it
NatToString(n) == IF n < 10 THEN <<Digits[n + 1]>> ELSE NatToString(n \div 10) \o <<Digits[(n % 10) + 1]>>

\* the components joined by dashes
VersionToStringDashed(v) == NatToString(v.major) \o <<"-">> \o NatToString(v.minor) \o <<"-">> \o NatToString(v.patch)

\* Version.toString: `${major}.${minor}.${patch}`
VersionToString(v) == NatToString(v.major) \o <<".">> \o NatToString(v.minor) \o <<".">> \o NatToString(v.patch)

VerInit == vInput \in VInputs /\ vResult = NoVersion /\ vText = <<>>

InitVersion == DevInit /\ VerInit /\ CmpIdle /\ MapIdle /\ FilterIdle /\ ReqIdle

FromStep ==
    /\ vResult = NoVersion
    /\ vResult' = From(vInput)
    /\ UNCHANGED <<vInput, vText, devVars, cmpVars, mapVars, filterVars, reqVars>>

\* toString() of the Version that from() returned
ToStringStep ==
    /\ vResult.tag = "version"
    /\ vText = <<>>
    /\ vText' = VersionToString(vResult)
    /\ UNCHANGED <<vInput, vResult, devVars, cmpVars, mapVars, filterVars, reqVars>>

NextVersion == FromStep \/ ToStringStep

SpecVersion == InitVersion /\ [][NextVersion]_vars

(***************************************************************************)
(* Version.compare and Version.sameOrNewer                                 *)
(***************************************************************************)
MaxComp == 10

\* components of the Version objects handed to compare
Comps == {0, 1, MaxComp}

\* an operand of type Version
VersionObject(major, minor, patch) ==
    [kind |-> "Version", major |-> major, minor |-> minor, patch |-> patch, text |-> <<>>]

\* an operand of type string
StringOperand(text) == [kind |-> "string", major |-> 0, minor |-> 0, patch |-> 0, text |-> text]

CmpStrings ==
    {<<"1">>, <<"0", ".", "1", "0">>, <<"1", "-", "1">>, <<" ", "1">>, <<"1", ".", ".", "1">>,
     <<"x">>, <<"X">>, <<"x", "y">>, <<" ", "x">>}

CmpOperands ==
    {VersionObject(a, b, c) : a \in Comps, b \in Comps, c \in Comps} \cup {StringOperand(t) : t \in CmpStrings}

UpperLetters ==
    <<"A", "B", "C", "D", "E", "F", "G", "H", "I", "J", "K", "L", "M",
      "N", "O", "P", "Q", "R", "S", "T", "U", "V", "W", "X", "Y", "Z">>

LowerLetters ==
    <<"a", "b", "c", "d", "e", "f", "g", "h", "i", "j", "k", "l", "m",
      "n", "o", "p", "q", "r", "s", "t", "u", "v", "w", "x", "y", "z">>

ToLowerChar(ch) ==
    IF \E i \in 1..Len(UpperLetters) : UpperLetters[i] = ch
    THEN LowerLetters[CHOOSE i \in 1..Len(UpperLetters) : UpperLetters[i] = ch]
    ELSE ch

\* a comparison that tells the two cases of a letter apart
LocaleEqualVariant(s, t) == s = t

\* s.localeCompare(t, undefined, {sensitivity: 'accent'}) === 0: the strings
\* have the same base letters and accents, whatever their case
LocaleEqual(s, t) == Len(s) = Len(t) /\ \A i \in 1..Len(s) : ToLowerChar(s[i]) = ToLowerChar(t[i])

Returns(n) == [tag |-> "returns", value |-> n, message |-> ""]

Throws(key) == [tag |-> "throws", value |-> 0, message |-> key]

\* lines 189-190: a string operand is parsed, a Version operand is taken as it is
AsVersion(v) ==
    IF v.kind = "string" THEN From(v.text)
    ELSE [tag |-> "version", major |-> v.major, minor |-> v.minor, patch |-> v.patch]

\* the components weighted as a positional version number would be
NumPositional(version) == version.major * 10000 + version.minor * 100 + version.patch

\* lines 213-214
Num(version) == version.major * 100 + version.minor * 10 + version.patch

\* the comparison without its test for equality
OrderStrict(num1, num2) == IF num1 < num2 THEN -1 ELSE 1

\* lines 216-222
Order(num1, num2) == IF num1 = num2 THEN 0 ELSE IF num1 < num2 THEN -1 ELSE 1

\* a codename taken to be older than every numeric version
CodenameOrderOldest(firstIsCodename) == IF firstIsCodename THEN -1 ELSE 1

\* lines 204-211: a codename is newer than every numeric version
CodenameOrder(firstIsCodename) == IF firstIsCodename THEN 1 ELSE -1

\* Version.compare(v1, v2)
Compare(v1, v2) ==
    LET version1 == AsVersion(v1)
        version2 == AsVersion(v2)
    IN  IF version1 = NullVersion /\ version2 = NullVersion
        THEN IF LocaleEqual(v1.text, v2.text) THEN Returns(0)
             ELSE Throws("error:version:codename:comparing")
        ELSE IF version1 = NullVersion THEN Returns(CodenameOrder(TRUE))
        ELSE IF version2 = NullVersion THEN Returns(CodenameOrder(FALSE))
        ELSE Returns(Order(Num(version1), Num(version2)))

\* Version.sameOrNewer(v1, v2): compare(v1, v2) >= 0, or the error compare raised
SameOrNewer(v1, v2) ==
    LET c == Compare(v1, v2)
    IN  IF c.tag = "throws" THEN "throws" ELSE IF c.value >= 0 THEN "true" ELSE "false"

CmpInit ==
    /\ cmpV1 \in CmpOperands
    /\ cmpV2 \in CmpOperands
    /\ cmpResult = [tag |-> "none", value |-> 0, message |-> ""]
    /\ newerResult = "none"

InitCompare == DevInit /\ VerIdle /\ CmpInit /\ MapIdle /\ FilterIdle /\ ReqIdle

CompareStep ==
    /\ cmpResult.tag = "none"
    /\ cmpResult' = Compare(cmpV1, cmpV2)
    /\ UNCHANGED <<cmpV1, cmpV2, newerResult, devVars, verVars, mapVars, filterVars, reqVars>>

SameOrNewerStep ==
    /\ newerResult = "none"
    /\ newerResult' = SameOrNewer(cmpV1, cmpV2)
    /\ UNCHANGED <<cmpV1, cmpV2, cmpResult, devVars, verVars, mapVars, filterVars, reqVars>>

NextCompare == CompareStep \/ SameOrNewerStep

SpecCompare == InitCompare /\ [][NextCompare]_vars

(***************************************************************************)
(* CaseInsensitiveStringMap                                                *)
(***************************************************************************)
\* String.prototype.toLowerCase
ToLowerCase(s) == [i \in 1..Len(s) |-> ToLowerChar(s[i])]

\* the key used as it is given
ExactKey(key) == key

\* lines 43, 48, 53, 58: the key under which the private map is accessed
MapKey(key) == ToLowerCase(key)

\* an entry added without replacing the one the key already has
MapSetAdd(m, key, value) == m \cup {<<MapKey(key), value>>}

\* the private Map<string, string> is a set of <<key, value>> pairs, one per key
\* set(key, value)
MapSet(m, key, value) == {e \in m : e[1] # MapKey(key)} \cup {<<MapKey(key), value>>}

\* has(key)
MapHas(m, key) == \E e \in m : e[1] = MapKey(key)

\* get(key): the value, or undefined (found = FALSE)
MapGet(m, key) ==
    IF MapHas(m, key)
    THEN [found |-> TRUE, got |-> (CHOOSE e \in m : e[1] = MapKey(key))[2]]
    ELSE [found |-> FALSE, got |-> <<>>]

\* delete(key): the map without the key
MapDelete(m, key) == {e \in m : e[1] # MapKey(key)}

\* a \r that ends the text before a \n belongs to the line terminator
StripCR(l) == IF l # <<>> /\ l[Len(l)] = "\r" THEN SubSeq(l, 1, Len(l) - 1) ELSE l

RECURSIVE SplitLines(_)
\* input.split(/\r?\n/)
SplitLines(input) ==
    LET l == UpTo(input, "\n")
    IN  IF Len(l) = Len(input) THEN <<input>>
        ELSE <<StripCR(l)>> \o SplitLines(SubSeq(input, Len(l) + 2, Len(input)))

\* line.match(/[:=]/): the position of the first : or =, 0 when there is none
MatchIndex(line) ==
    IF \E i \in 1..Len(line) : line[i] \in {":", "="}
    THEN CHOOSE i \in 1..Len(line) : line[i] \in {":", "="} /\ \A j \in 1..(i - 1) : line[j] \notin {":", "="}
    ELSE 0

\* the map keeps the value it already has for a key
KeepFirst(m, key, value) == IF MapHas(m, key) THEN m ELSE MapSet(m, key, value)

\* line 34: resultMap.set(key, value)
SetParsed(m, key, value) == MapSet(m, key, value)

RECURSIVE ParseLines(_, _)
\* lines 27-36: the loop over the lines
ParseLines(lines, m) ==
    IF lines = <<>> THEN m
    ELSE LET line == Head(lines)
             index == MatchIndex(line)
         IN  IF index = 0 THEN ParseLines(Tail(lines), m)
             ELSE ParseLines(Tail(lines),
                             SetParsed(m, Trim(SubSeq(line, 1, index - 1)), Trim(SubSeq(line, index + 1, Len(line)))))

\* CaseInsensitiveStringMap.fromString(input)
FromString(input) == ParseLines(SplitLines(input), {})

MaxLines == 2

\* the lines that the input texts are made of
MapLines ==
    {<<"a", ":", "b">>, <<"A", "=", "c">>, <<" ", "a", " ", ":", " ", "b", " ">>, <<"a">>, <<>>,
     <<":", "b">>, <<"a", "=", "b", ":", "c">>, <<"b", ":">>, <<"b", ":", "c", "\r">>}

MapInputs == [lines : UNION {[1..n -> MapLines] : n \in 0..MaxLines}, nl : {<<"\n">>, <<"\r", "\n">>}]

RECURSIVE JoinLines(_, _)
\* the text whose lines are the given ones, each but the last followed by nl
JoinLines(lines, nl) ==
    IF lines = <<>> THEN <<>>
    ELSE IF Len(lines) = 1 THEN lines[1]
    ELSE lines[1] \o nl \o JoinLines(Tail(lines), nl)

LogEntry(name, key, value, found, got) ==
    [op |-> name, key |-> key, value |-> value, found |-> found, got |-> got]

FromStringInit ==
    /\ mInput \in MapInputs
    /\ cmap = {}
    /\ mLog = <<>>

InitFromString == DevInit /\ VerIdle /\ CmpIdle /\ FromStringInit /\ FilterIdle /\ ReqIdle

FromStringStep ==
    /\ mLog = <<>>
    /\ cmap' = FromString(JoinLines(mInput.lines, mInput.nl))
    /\ mLog' = <<LogEntry("fromString", <<>>, <<>>, FALSE, <<>>)>>
    /\ UNCHANGED <<mInput, devVars, verVars, cmpVars, filterVars, reqVars>>

NextFromString == FromStringStep

SpecFromString == InitFromString /\ [][NextFromString]_vars

MaxCalls == 3

OpKeys == {<<"a">>, <<"A">>, <<"b">>}

OpValues == {<<"1">>, <<"2">>}

\* map.set(key, value) on the instance
SetCall(key, value) ==
    /\ Len(mLog) < MaxCalls
    /\ cmap' = MapSet(cmap, key, value)
    /\ mLog' = Append(mLog, LogEntry("set", key, value, FALSE, <<>>))
    /\ UNCHANGED <<mInput, devVars, verVars, cmpVars, filterVars, reqVars>>

\* map.delete(key), which returns whether the key was there
DeleteCall(key) ==
    /\ Len(mLog) < MaxCalls
    /\ cmap' = MapDelete(cmap, key)
    /\ mLog' = Append(mLog, LogEntry("delete", key, <<>>, MapHas(cmap, key), <<>>))
    /\ UNCHANGED <<mInput, devVars, verVars, cmpVars, filterVars, reqVars>>

\* map.get(key)
GetCall(key) ==
    /\ Len(mLog) < MaxCalls
    /\ mLog' = Append(mLog, LogEntry("get", key, <<>>, MapGet(cmap, key).found, MapGet(cmap, key).got))
    /\ UNCHANGED <<cmap, mInput, devVars, verVars, cmpVars, filterVars, reqVars>>

\* map.has(key)
HasCall(key) ==
    /\ Len(mLog) < MaxCalls
    /\ mLog' = Append(mLog, LogEntry("has", key, <<>>, MapHas(cmap, key), <<>>))
    /\ UNCHANGED <<cmap, mInput, devVars, verVars, cmpVars, filterVars, reqVars>>

InitMapOps == DevInit /\ VerIdle /\ CmpIdle /\ MapIdle /\ FilterIdle /\ ReqIdle

NextMapOps ==
    \/ \E key \in OpKeys, value \in OpValues : SetCall(key, value)
    \/ \E key \in OpKeys : DeleteCall(key)
    \/ \E key \in OpKeys : GetCall(key)
    \/ \E key \in OpKeys : HasCall(key)

SpecMapOps == InitMapOps /\ [][NextMapOps]_vars

(***************************************************************************)
(* MapUtils.filter and SetUtils.filter                                     *)
(***************************************************************************)
MaxKeys == 2

FKeys == 1..MaxKeys

FValues == {"u", "v"}

\* the sequences over S without repetition: the orders in which the elements
\* of a Set, or the keys of a Map, can have been inserted
Orders(S) ==
    {q \in UNION {[1..n -> S] : n \in 0..Cardinality(S)} : \A i, j \in 1..Len(q) : q[i] = q[j] => i = j}

\* the entries of a Map<K, V> in insertion order
MapsOver(K, V) ==
    UNION {{[i \in 1..Len(ks) |-> <<ks[i], vs[i]>>] : vs \in [1..Len(ks) -> V]} : ks \in Orders(K)}

\* the arguments of one call of each filter: a Map and the Set of its keys,
\* or null, or undefined
FilterInputs ==
    {[kind |-> "null", map |-> <<>>, set |-> <<>>], [kind |-> "undefined", map |-> <<>>, set |-> <<>>]}
        \cup {[kind |-> "object", map |-> m, set |-> [i \in 1..Len(m) |-> m[i][1]]] : m \in MapsOver(FKeys, FValues)}

\* the predicates, each given by the arguments for which it returns true
Predicates == [onMap : SUBSET (FKeys \X FValues), onSet : SUBSET FKeys]

\* a comparison with null that undefined does not pass
IsNullStrict(kind) == kind = "null"

\* lines 68, 87: map == null, which holds of null and of undefined
IsNull(kind) == kind \in {"null", "undefined"}

RECURSIVE Kept(_, _)
\* lines 72-76, 91-95: the elements for which the predicate returned true, in order
Kept(entries, holds) ==
    IF entries = <<>> THEN <<>>
    ELSE (IF Head(entries) \in holds THEN <<Head(entries)>> ELSE <<>>) \o Kept(Tail(entries), holds)

\* MapUtils.filter(map, predicate): aMap, or the TypeError of map.entries()
MapUtilsFilter(in, holds) ==
    IF IsNull(in.kind) THEN [tag |-> "returns", ref |-> "aMap", entries |-> <<>>]
    ELSE IF in.kind # "object" THEN [tag |-> "throws", ref |-> "", entries |-> <<>>]
    ELSE [tag |-> "returns", ref |-> "aMap", entries |-> Kept(in.map, holds)]

\* SetUtils.filter(set, predicate): aSet, or the TypeError of set.entries()
SetUtilsFilter(in, holds) ==
    IF IsNull(in.kind) THEN [tag |-> "returns", ref |-> "aSet", entries |-> <<>>]
    ELSE IF in.kind # "object" THEN [tag |-> "throws", ref |-> "", entries |-> <<>>]
    ELSE [tag |-> "returns", ref |-> "aSet", entries |-> Kept(in.set, holds)]

FilterInit ==
    /\ fIn \in FilterInputs
    /\ fPred \in Predicates
    /\ fOut = [map |-> [tag |-> "none", ref |-> "", entries |-> <<>>],
               set |-> [tag |-> "none", ref |-> "", entries |-> <<>>]]

InitFilter == DevInit /\ VerIdle /\ CmpIdle /\ MapIdle /\ FilterInit /\ ReqIdle

MapFilterStep ==
    /\ fOut.map.tag = "none"
    /\ fOut' = [fOut EXCEPT !.map = MapUtilsFilter(fIn, fPred.onMap)]
    /\ UNCHANGED <<fIn, fPred, devVars, verVars, cmpVars, mapVars, reqVars>>

SetFilterStep ==
    /\ fOut.set.tag = "none"
    /\ fOut' = [fOut EXCEPT !.set = SetUtilsFilter(fIn, fPred.onSet)]
    /\ UNCHANGED <<fIn, fPred, devVars, verVars, cmpVars, mapVars, reqVars>>

NextFilter == MapFilterStep \/ SetFilterStep

SpecFilter == InitFilter /\ [][NextFilter]_vars

(***************************************************************************)
(* RequirementProcessor.execute on one requirement group                   *)
(***************************************************************************)
\* the requirements of the group in declaration order, each parent before its
\* children: [A, B, C], or the same with two children under B
ReqOrder(nested) == IF nested THEN <<"A", "B", "B1", "B2", "C">> ELSE <<"A", "B", "C">>

ReqNames == {"A", "B", "B1", "B2", "C"}

ChildrenOf(nested, r) == IF nested /\ r = "B" THEN {"B1", "B2"} ELSE {}

\* what a check does when it is invoked: it returns fulfilled, returns
\* unfulfilled, or raises an error
CheckBehaviours == {"pass", "fail", "throw"}

\* the groups and options execute is called with; the checks of requirements
\* that are not in the group play no part
ReqInputs ==
    {in \in [nested : BOOLEAN, failFast : BOOLEAN, check : [ReqNames -> CheckBehaviours]] :
        ~in.nested => (in.check["B1"] = "pass" /\ in.check["B2"] = "pass")}

\* a raised error counts as Unfulfilled
OutcomeOf(behaviour) == IF behaviour = "pass" THEN "Fulfilled" ELSE "Unfulfilled"

Entry(r, outcome, detail) == [req |-> r, outcome |-> outcome, detail |-> detail]

\* the pipeline goes on whatever the outcome
StopsNever(failFast, outcome) == FALSE

\* with fail-fast the pipeline stops right after recording an unfulfilled requirement
Stops(failFast, outcome) == failFast /\ outcome # "Fulfilled"

Recorded(ledger, r) == \E i \in 1..Len(ledger) : ledger[i].req = r

OwnOutcome(ledger, r) == ledger[CHOOSE i \in 1..Len(ledger) : ledger[i].req = r].outcome

\* the outcome of the check alone
CombinedOwn(nested, ledger, r) == OwnOutcome(ledger, r)

\* AND semantics: fulfilled only if the check and all children are fulfilled
Combined(nested, ledger, r) ==
    IF /\ OwnOutcome(ledger, r) = "Fulfilled"
       /\ \A c \in ChildrenOf(nested, r) : Recorded(ledger, c) /\ OwnOutcome(ledger, c) = "Fulfilled"
    THEN "Fulfilled" ELSE "Unfulfilled"

\* the per-requirement outcomes handed to the caller, in declaration order
PerRequirement(nested, ledger) ==
    [i \in 1..Len(ledger) |-> [ledger[i] EXCEPT !.outcome = Combined(nested, ledger, ledger[i].req)]]

AllFulfilled(report) == \A i \in 1..Len(report) : report[i].outcome = "Fulfilled"

ReqInit ==
    /\ rqIn \in ReqInputs
    /\ rqRun = [pc |-> "idle", next |-> 0, invoked |-> <<>>, ledger |-> <<>>,
                perRequirement |-> <<>>, allFulfilled |-> FALSE]

InitRequirements == DevInit /\ VerIdle /\ CmpIdle /\ MapIdle /\ FilterIdle /\ ReqInit

\* execute(groups, options) is called
Execute ==
    /\ rqRun.pc = "idle"
    /\ rqRun' = [rqRun EXCEPT !.pc = "invoke", !.next = 1]
    /\ UNCHANGED <<rqIn, devVars, verVars, cmpVars, mapVars, filterVars>>

\* the check of the next requirement in declaration order is invoked
InvokeCheck ==
    /\ rqRun.pc = "invoke"
    /\ rqRun' = [rqRun EXCEPT !.pc = "await",
                              !.invoked = Append(@, ReqOrder(rqIn.nested)[rqRun.next])]
    /\ UNCHANGED <<rqIn, devVars, verVars, cmpVars, mapVars, filterVars>>

\* the invoked check completes: its outcome is recorded, and the pipeline
\* stops with the aggregate error, goes on, or returns the aggregate result
CheckSettles ==
    /\ rqRun.pc = "await"
    /\ LET order == ReqOrder(rqIn.nested)
           r == order[rqRun.next]
           outcome == OutcomeOf(rqIn.check[r])
           ledger == Append(rqRun.ledger, Entry(r, outcome, rqIn.check[r]))
           report == PerRequirement(rqIn.nested, ledger)
       IN  rqRun' =
             IF Stops(rqIn.failFast, outcome)
             THEN [rqRun EXCEPT !.pc = "raised", !.ledger = ledger, !.perRequirement = report]
             ELSE IF rqRun.next = Len(order)
             THEN [rqRun EXCEPT !.pc = "returned", !.ledger = ledger, !.perRequirement = report,
                                !.allFulfilled = AllFulfilled(report)]
             ELSE [rqRun EXCEPT !.pc = "invoke", !.next = @ + 1, !.ledger = ledger]
    /\ UNCHANGED <<rqIn, devVars, verVars, cmpVars, mapVars, filterVars>>

NextRequirements == Execute \/ InvokeCheck \/ CheckSettles

SpecRequirements == InitRequirements /\ [][NextRequirements]_vars

(***************************************************************************)
(* Properties of the device lifecycle                                      *)
(***************************************************************************)
Failed(d) == \E i \in 1..Len(issued[d]) : issued[d][i].st = "fail"

AllOk(d) == \A i \in 1..Len(issued[d]) : issued[d][i].st = "ok"

Returned(d, name) == op[d].name = name /\ pc[d] = "idle"

\* C1: the session port differs from the sentinel only while the device is
\* booted: once shutdown() has completed, the port is the sentinel again.
C1_PortOnlyWhileBooted ==
    \A d \in Devices :
        (Returned(d, "shutdown") /\ result[d] = "ok") => port[d] = NoPort

\* C2: boot(waitForBoot, systemWritable = true) on a Play Store device fails
\* at once with the policy error for either waitForBoot: no start command is
\* issued and no port changes.
C2_PlayStoreWritableBootRejected ==
    [][/\ \A d \in Devices, w \in BOOLEAN :
            (isPlayStore[d] /\ Boot(d, w, TRUE)) =>
                /\ result'[d] = "SfError"
                /\ pc'[d] = "idle"
                /\ issued'[d] = <<>>
                /\ inflight' = inflight
                /\ port' = port
       /\ \A c \in inflight' : ~(c.cmd = "startEmulator" /\ c.systemWritable /\ isPlayStore[c.dev])]_vars

\* a booted Play Store device whose writable boot was rejected
C2_Witness ==
    \E d \in Devices :
        isPlayStore[d] /\ Returned(d, "boot") /\ result[d] = "SfError" /\ port[d] \in Ports /\ issued[d] = <<>>

\* C3: reboot(w) on a never-booted device does what boot(w) does: it issues
\* the start command (not writable, same waitForBoot), never the reboot
\* command, and ends with the port that the start resolved with (or with the
\* port unchanged and an error when the start rejected).
C3_ColdRebootIsBoot ==
    [][\A d \in Devices :
        /\ \A w \in BOOLEAN :
            (port[d] = NoPort /\ Reboot(d, w)) =>
                /\ inflight' = inflight \cup {Cmd(d, "startEmulator", NoPort, FALSE, w, <<>>)}
                /\ inflight' # inflight
                /\ pc'[d] = "boot:start"
                /\ issued'[d] = <<Step("startEmulator", "pending")>>
                /\ port' = port
        /\ (op[d].name \in {"boot", "reboot"} /\ pc[d] = "boot:start" /\ pc'[d] = "idle") =>
                /\ issued'[d][1].cmd = "startEmulator"
                /\ result'[d] \in {"ok", "error"}
                /\ result'[d] = "ok" => (port'[d] = issued'[d][1].ret /\ port'[d] \in Ports)
                /\ result'[d] = "error" => port'[d] = port[d]]_vars

\* a reboot of a never-booted device that ended booted
C3_Witness ==
    \E d \in Devices :
        /\ Returned(d, "reboot") /\ result[d] = "ok"
        /\ issued[d] = <<[cmd |-> "startEmulator", st |-> "ok", ret |-> port[d]]>>
        /\ port[d] \in Ports

\* C4: isCertInstalled never raises; it returns false when the root
\* escalation or the listing failed, and true only when the listing
\* succeeded and contains the file name {subjectHash}.0.
C4_ProbeNeverRaises ==
    \A d \in Devices :
        Returned(d, "isCertInstalled") =>
            /\ result[d] \in {"true", "false"}
            /\ Failed(d) => result[d] = "false"
            /\ result[d] = "true" =>
                /\ issued[d] = <<Step("adb root", "ok"), Step("adb ls", "ok")>>
                /\ Includes(Listing(deviceCerts[d]), CertFileName(op[d].cert))

\* the listing failed although the file is in the trust directory
C4_Witness ==
    \E d \in Devices :
        /\ Returned(d, "isCertInstalled") /\ result[d] = "false"
        /\ issued[d] = <<Step("adb root", "ok"), Step("adb ls", "fail")>>
        /\ CertFileName(op[d].cert) \in deviceCerts[d]

InstallSteps == <<"writeFileSync", "mountAsRootWritableSystem", "adb push", "adb chmod">>

\* C5: installCert raises when the temp-file write, the remount, the push or
\* the chmod fails, and after a failing step no further step is executed.
C5_InstallPropagates ==
    \A d \in Devices :
        op[d].name = "installCert" =>
            /\ Len(issued[d]) \in 1..4
            /\ \A i \in 1..Len(issued[d]) : issued[d][i].cmd = InstallSteps[i]
            /\ \A i \in 1..(Len(issued[d]) - 1) : issued[d][i].st = "ok"
            /\ Failed(d) => (pc[d] = "idle" /\ result[d] = "error" /\ Outstanding(d) = {})
            /\ pc[d] = "idle" => (result[d] = "ok" <=> (Len(issued[d]) = 4 /\ AllOk(d)))
            /\ pc[d] = "idle" => result[d] \in {"ok", "error"}

\* an installation that stopped at a failed push
C5_Witness ==
    \E d \in Devices :
        /\ Returned(d, "installCert") /\ result[d] = "error"
        /\ Len(issued[d]) = 3 /\ issued[d][3] = Step("adb push", "fail")

\* C6 as stated: isCertInstalled(c) right after a successful installCert(c)
\* returns true; for a certificate never installed it returns false.
C6_ProbeAfterInstallTrue ==
    \A d \in Devices :
        Returned(d, "isCertInstalled") =>
            /\ op[d].afterInstall => result[d] = "true"
            /\ CertFileName(op[d].cert) \notin deviceCerts[d] => result[d] = "false"

\* C6, amended: isCertInstalled(c) right after a successful installCert(c)
\* returns true when the root escalation and the listing both succeed and
\* false when either fails; for a certificate never installed it returns
\* false, whether or not the probe commands succeed.
C6_ProbeAfterInstall ==
    \A d \in Devices :
        Returned(d, "isCertInstalled") =>
            /\ op[d].afterInstall => result[d] = (IF Len(issued[d]) = 2 /\ AllOk(d) THEN "true" ELSE "false")
            /\ CertFileName(op[d].cert) \notin deviceCerts[d] => result[d] = "false"

\* a probe right after the installation that found the certificate
C6_Witness ==
    \E d \in Devices :
        Returned(d, "isCertInstalled") /\ op[d].afterInstall /\ result[d] = "true"

\* a step of the flow of device d
FlowStep(d) == pc'[d] # pc[d] \/ issued'[d] # issued[d] \/ op'[d] # op[d] \/ result'[d] # result[d]

\* C7: a device's port is written only by that device's own boot or reboot
\* (shutdown shares the field but the other operations do not touch it):
\* openUrl, hasApp, launchApp, isCertInstalled and installCert leave every
\* port unchanged, and no step of one device changes the port of another.
C7_PortFrame ==
    [][\A d \in Devices :
        /\ port'[d] # port[d] =>
            /\ op[d].name \in {"boot", "reboot", "shutdown"}
            /\ FlowStep(d)
            /\ \A e \in Devices \ {d} : ~FlowStep(e)
        /\ (FlowStep(d) /\ op'[d].name \in {"openUrl", "hasApp", "launchApp", "isCertInstalled", "installCert"}) =>
            port' = port]_vars

\* one device is booted while another, never booted, has installed a certificate
C7_Witness ==
    \E d, e \in Devices :
        /\ d # e /\ port[d] \in Ports /\ port[e] = NoPort
        /\ Returned(e, "installCert") /\ result[e] = "ok"

\* C8: shutdown() on a device that is not booted still issues the stop
\* command, with the sentinel port, and leaves the port at the sentinel.
C8_ShutdownWhenNotBooted ==
    [][\A d \in Devices :
        /\ (port[d] = NoPort /\ Shutdown(d)) =>
            /\ inflight' \ inflight = {Cmd(d, "stopEmulator", NoPort, FALSE, TRUE, <<>>)}
            /\ port'[d] = NoPort
        /\ (port[d] = NoPort /\ op[d].name = "shutdown" /\ pc[d] # "idle" /\ pc'[d] = "idle") =>
            /\ port'[d] = NoPort
            /\ issued'[d][1].cmd = "stopEmulator" /\ issued'[d][1].st # "pending"]_vars

\* a shutdown of a device that was never booted has completed
C8_Witness ==
    \E d \in Devices :
        /\ Returned(d, "shutdown") /\ result[d] = "ok" /\ port[d] = NoPort
        /\ issued[d] = <<Step("stopEmulator", "ok")>>

Pending(d) == {i \in 1..Len(issued[d]) : issued[d][i].st = "pending"}

\* C9: at most one command is outstanding per device: a flow issues its next
\* command only when the one before has settled; different devices may have
\* commands outstanding at the same time.
C9_OneOutstandingPerDevice ==
    \A d \in Devices :
        /\ Cardinality(Outstanding(d)) <= 1
        /\ Cardinality(Pending(d)) = Cardinality(Outstanding(d))
        /\ Pending(d) \subseteq {Len(issued[d])}
        /\ pc[d] = "idle" <=> Outstanding(d) = {}

\* every device has a command outstanding, one of them the second of its flow
C9_Witness ==
    /\ \A d \in Devices : Cardinality(Outstanding(d)) = 1
    /\ \E d \in Devices : Len(issued[d]) >= 2

(***************************************************************************)
(* Properties of Version.from                                              *)
(***************************************************************************)
IsSep(ch) == ch \in {".", "-"}

MixesSeparators(s) == (\E i \in 1..Len(s) : s[i] = ".") /\ (\E i \in 1..Len(s) : s[i] = "-")

\* a separator at either end, or two separators in a row
HasEmptyGroup(s) ==
    \E i \in 1..Len(s) : IsSep(s[i]) /\ (i = 1 \/ i = Len(s) \/ IsSep(s[i + 1]))

\* a group that starts with 0 and goes on with another digit
HasLeadingZero(s) ==
    \E i \in 1..(Len(s) - 1) : s[i] = "0" /\ IsDigit(s[i + 1]) /\ (i = 1 \/ IsSep(s[i - 1]))

\* C10: Version.from returns null for every string that mixes the
\* separators, has an empty group or has a group with a leading zero.
C10_MalformedIsNull ==
    (vResult # NoVersion /\ (MixesSeparators(Trim(vInput)) \/ HasEmptyGroup(Trim(vInput)) \/ HasLeadingZero(Trim(vInput))))
        => vResult = NullVersion

(***************************************************************************)
(* Properties of Version.from followed by toString                         *)
(***************************************************************************)
RECURSIVE SplitOn(_, _)
\* the groups of s between the occurrences of the separator ch
SplitOn(s, ch) ==
    LET g == UpTo(s, ch)
    IN  IF Len(g) = Len(s) THEN <<g>> ELSE <<g>> \o SplitOn(SubSeq(s, Len(g) + 2, Len(s)), ch)

\* a non-empty run of digits without a leading zero
IsNumeral(g) == g # <<>> /\ (\A i \in 1..Len(g) : IsDigit(g[i])) /\ (Len(g) > 1 => g[1] # "0")

\* s is x, x<ch>y or x<ch>y<ch>z
WellFormedWith(s, ch) ==
    LET gs == SplitOn(s, ch) IN Len(gs) \in 1..3 /\ \A i \in 1..Len(gs) : IsNumeral(gs[i])

WellFormed(s) == \E ch \in {".", "-"} : WellFormedWith(s, ch)

\* x.y.z, the groups of s with 0 for each group that s leaves out
Canonical(s) ==
    LET ch == CHOOSE c \in {".", "-"} : WellFormedWith(s, c)
        gs == SplitOn(s, ch)
        G(i) == IF i <= Len(gs) THEN gs[i] ELSE <<"0">>
    IN  G(1) \o <<".">> \o G(2) \o <<".">> \o G(3)

\* C11: for every valid string x[.y[.z]] or x[-y[-z]] whose groups have no
\* leading zeros, Version.from returns a Version and toString of it is the
\* canonical dotted form x.y.z, with 0 for each component left out.
C11_RoundTripCanonical ==
    WellFormed(vInput) =>
        /\ vResult # NoVersion => vResult.tag = "version"
        /\ vText # <<>> => vText = Canonical(vInput)

\* a string x-y with a two-digit x went through from and toString
C11_Witness ==
    /\ WellFormed(vInput) /\ vText # <<>>
    /\ Len(SplitOn(vInput, "-")) = 2
    /\ Len(SplitOn(vInput, "-")[1]) = 2

(***************************************************************************)
(* Properties of Version.compare                                           *)
(***************************************************************************)
\* a Version object, or a string that Version.from parses
Numeric(v) == v.kind = "Version" \/ (v.kind = "string" /\ From(v.text) # NullVersion)

\* a string that Version.from does not parse
Codename(v) == v.kind = "string" /\ From(v.text) = NullVersion

\* major*100 + minor*10 + patch of a numeric operand
Weight(v) == LET w == AsVersion(v) IN w.major * 100 + w.minor * 10 + w.patch

Compared == cmpResult.tag # "none"

Fold(s) == [i \in 1..Len(s) |-> ToLowerChar(s[i])]

C13_WitnessThrows ==
    /\ Codename(cmpV1) /\ Codename(cmpV2)
    /\ cmpResult.tag = "throws"

\* C14: for every numeric version n and every codename c,
\* compare(n, c) = -1 and compare(c, n) = 1 whatever the magnitude of n;
\* hence sameOrNewer(c, n) is true and sameOrNewer(n, c) is false.
C14_CodenameNewest ==
    /\ (Numeric(cmpV1) /\ Codename(cmpV2)) =>
            /\ Compared => cmpResult = Returns(-1)
            /\ newerResult # "none" => newerResult = "false"
    /\ (Codename(cmpV1) /\ Numeric(cmpV2)) =>
            /\ Compared => cmpResult = Returns(1)
            /\ newerResult # "none" => newerResult = "true"

\* the largest Version object compared with a codename
C14_Witness ==
    /\ cmpV1 = VersionObject(MaxComp, MaxComp, MaxComp) /\ Codename(cmpV2)
    /\ cmpResult = Returns(-1) /\ newerResult = "false"

C15_WitnessNumeric ==
    /\ cmpV1.kind = "Version" /\ cmpV2.kind = "string" /\ Numeric(cmpV2)
    /\ cmpResult = Returns(-1)

(***************************************************************************)
(* Properties of CaseInsensitiveStringMap                                  *)
(***************************************************************************)
HasSeparator(line) == \E i \in 1..Len(line) : line[i] \in {":", "="}

RECURSIVE BeforeSeparator(_)
\* the text of a line before its first : or =
BeforeSeparator(line) ==
    IF line = <<>> \/ Head(line) \in {":", "="} THEN <<>>
    ELSE <<Head(line)>> \o BeforeSeparator(Tail(line))

\* the text of a line after its first : or =
AfterSeparator(line) == SubSeq(line, Len(BeforeSeparator(line)) + 2, Len(line))

\* the input lines that contain a separator
SepLines == {i \in 1..Len(mInput.lines) : HasSeparator(mInput.lines[i])}

KeyOf(i) == Trim(BeforeSeparator(mInput.lines[i]))

ValueOf(i) == Trim(AfterSeparator(mInput.lines[i]))

\* the last line whose key is that of line i, ignoring case
LastWithKeyOf(i) ==
    CHOOSE j \in SepLines :
        /\ Fold(KeyOf(j)) = Fold(KeyOf(i))
        /\ \A n \in SepLines : Fold(KeyOf(n)) = Fold(KeyOf(i)) => n <= j

Parsed == mLog # <<>> /\ mLog[1].op = "fromString"

\* C16 as stated: fromString creates one entry per input line that contains
\* : or =, with the trimmed text before the first separator as key and the
\* trimmed text after it as value; lines without a separator create no entry.
C16_OneEntryPerLine ==
    Parsed =>
        /\ Cardinality(cmap) = Cardinality(SepLines)
        /\ \A i \in SepLines : MapGet(cmap, KeyOf(i)) = [found |-> TRUE, got |-> ValueOf(i)]
        /\ \A e \in cmap : \E i \in SepLines : e = <<Fold(KeyOf(i)), ValueOf(i)>>

\* C16, amended: fromString creates one entry per key, keys compared
\* ignoring case, among the input lines that contain : or =: the key is the
\* trimmed text before the first separator of the line, the value is the
\* trimmed text after the first separator of the last line with that key, and
\* lines without a separator create no entry.
C16_OneEntryPerKey ==
    Parsed =>
        /\ Cardinality(cmap) = Cardinality({Fold(KeyOf(i)) : i \in SepLines})
        /\ \A i \in SepLines : MapGet(cmap, KeyOf(i)) = [found |-> TRUE, got |-> ValueOf(LastWithKeyOf(i))]
        /\ \A e \in cmap : \E i \in SepLines : e = <<Fold(KeyOf(i)), ValueOf(i)>>

\* two lines with the same key up to case and different values, and one entry
C16_Witness ==
    /\ Parsed
    /\ \E i, j \in SepLines : i < j /\ KeyOf(i) # KeyOf(j) /\ Fold(KeyOf(i)) = Fold(KeyOf(j)) /\ ValueOf(i) # ValueOf(j)
    /\ Cardinality(cmap) = 1

\* the set and delete calls among the first n that were made under a casing of key
WritesTo(key, n) == {i \in 1..n : mLog[i].op \in {"set", "delete"} /\ Fold(mLog[i].key) = Fold(key)}

\* what get(key) has to answer after the first n calls
Answer(key, n) ==
    LET W == WritesTo(key, n)
        last == CHOOSE i \in W : \A j \in W : j <= i
    IN  IF W # {} /\ mLog[last].op = "set"
        THEN [found |-> TRUE, got |-> mLog[last].value]
        ELSE [found |-> FALSE, got |-> <<>>]

\* C17: after any sequence of set and delete calls get(k) and has(k) give the
\* same answer for every casing of k, and the answer is that of the most
\* recent set or delete made under any casing of the key.
C17_CaseInsensitiveLastWrite ==
    /\ \A k \in OpKeys :
            /\ MapGet(cmap, k) = Answer(k, Len(mLog))
            /\ MapHas(cmap, k) = Answer(k, Len(mLog)).found
            /\ \A j \in OpKeys : Fold(j) = Fold(k) =>
                    (MapGet(cmap, j) = MapGet(cmap, k) /\ MapHas(cmap, j) = MapHas(cmap, k))
    /\ \A i \in 1..Len(mLog) :
            /\ mLog[i].op = "get" =>
                    [found |-> mLog[i].found, got |-> mLog[i].got] = Answer(mLog[i].key, i - 1)
            /\ mLog[i].op = "has" => mLog[i].found = Answer(mLog[i].key, i - 1).found

\* a key set under one casing, set again under another, and read under the first
C17_Witness ==
    /\ Len(mLog) = 3
    /\ mLog[1].op = "set" /\ mLog[2].op = "set" /\ mLog[3].op = "get"
    /\ mLog[1].key = mLog[3].key /\ mLog[2].key # mLog[1].key
    /\ mLog[1].value # mLog[2].value
    /\ mLog[3].found /\ mLog[3].got = mLog[2].value

(***************************************************************************)
(* Properties of MapUtils.filter and SetUtils.filter                       *)
(***************************************************************************)
Elements(q) == {q[i] : i \in 1..Len(q)}

\* the result r of a filter called on the collection with the given entries
\* is a new collection that holds exactly the entries for which the predicate
\* returned true, each once
FilteredFrom(r, entries, holds) ==
    /\ r.tag = "returns"
    /\ r.ref \notin {"map", "set"}
    /\ Elements(r.entries) = {e \in Elements(entries) : e \in holds}
    /\ Cardinality(Elements(r.entries)) = Len(r.entries)

\* C18: MapUtils.filter and SetUtils.filter return a new collection that
\* contains exactly the entries of the input for which the predicate returns
\* true, leave the input collection unchanged, and return an empty collection
\* for a null or undefined input.
C18_FilterFrame ==
    [][/\ (fOut'.map # fOut.map) =>
            /\ fIn' = fIn
            /\ FilteredFrom(fOut'.map, fIn.map, fPred.onMap)
            /\ fIn.kind \in {"null", "undefined"} => fOut'.map.entries = <<>>
       /\ (fOut'.set # fOut.set) =>
            /\ fIn' = fIn
            /\ FilteredFrom(fOut'.set, fIn.set, fPred.onSet)
            /\ fIn.kind \in {"null", "undefined"} => fOut'.set.entries = <<>>]_vars

\* both filters called on undefined
C18_Witness ==
    /\ fIn.kind = "undefined"
    /\ fOut.map.tag = "returns" /\ fOut.set.tag = "returns"

\* a Map filtered to some but not all of its entries
C18_WitnessSome ==
    /\ fIn.kind = "object" /\ fOut.map.tag = "returns"
    /\ fOut.map.entries # <<>> /\ Len(fOut.map.entries) < Len(fIn.map)

(***************************************************************************)
(* Properties of RequirementProcessor.execute                              *)
(***************************************************************************)
Titles(q) == [i \in 1..Len(q) |-> q[i].req]

Outcomes(q) == [i \in 1..Len(q) |-> q[i].outcome]

WasInvoked(r) == \E i \in 1..Len(rqRun.invoked) : rqRun.invoked[i] = r

\* the group [A: pass, B: fail, C: pass]
PassFailPass ==
    ~rqIn.nested /\ rqIn.check["A"] = "pass" /\ rqIn.check["B"] = "fail" /\ rqIn.check["C"] = "pass"

\* C19: execute on one group [A: pass, B: fail, C: pass]: with fail-fast
\* disabled all three outcomes are reported in declaration order and
\* allFulfilled is false; with fail-fast enabled the pipeline stops after B,
\* the check of C is never invoked, and the ledger of the raised aggregate
\* error is exactly [A, B].
C19_PassFailPass ==
    PassFailPass =>
        /\ ~rqIn.failFast =>
                /\ rqRun.pc # "raised"
                /\ rqRun.pc = "returned" =>
                        /\ Titles(rqRun.perRequirement) = <<"A", "B", "C">>
                        /\ Outcomes(rqRun.perRequirement) = <<"Fulfilled", "Unfulfilled", "Fulfilled">>
                        /\ rqRun.allFulfilled = FALSE
        /\ rqIn.failFast =>
                /\ ~WasInvoked("C")
                /\ rqRun.pc # "returned"
                /\ Len(rqRun.ledger) = 2 => rqRun.pc = "raised"
                /\ rqRun.pc = "raised" =>
                        /\ Titles(rqRun.perRequirement) = <<"A", "B">>
                        /\ Outcomes(rqRun.perRequirement) = <<"Fulfilled", "Unfulfilled">>

\* the aggregate error raised after B under fail-fast
C19_Witness == PassFailPass /\ rqIn.failFast /\ rqRun.pc = "raised" /\ rqRun.invoked = <<"A", "B">>

\* all three reported without fail-fast
C19_WitnessAll == PassFailPass /\ ~rqIn.failFast /\ rqRun.pc = "returned"

Finished == rqRun.pc \in {"returned", "raised"}

ReportedOutcome(r) ==
    rqRun.perRequirement[CHOOSE i \in 1..Len(rqRun.perRequirement) : rqRun.perRequirement[i].req = r].outcome

Reported(r) == \E i \in 1..Len(rqRun.perRequirement) : rqRun.perRequirement[i].req = r

\* C20: for a requirement with children whose own check fails, the checks of
\* the children are never invoked under fail-fast and are all invoked and
\* reported without fail-fast; a parent is reported fulfilled only if its own
\* check and every child are fulfilled.
C20_ParentAndChildren ==
    rqIn.nested =>
        /\ (rqIn.check["B"] # "pass" /\ rqIn.failFast) =>
                (~WasInvoked("B1") /\ ~WasInvoked("B2") /\ rqRun.pc # "returned")
        /\ (rqIn.check["B"] # "pass" /\ ~rqIn.failFast) =>
                /\ rqRun.pc # "raised"
                /\ rqRun.pc = "returned" =>
                        (WasInvoked("B1") /\ WasInvoked("B2") /\ Reported("B1") /\ Reported("B2"))
        /\ (Finished /\ Reported("B") /\ ReportedOutcome("B") = "Fulfilled") =>
                /\ rqIn.check["B"] = "pass"
                /\ \A c \in {"B1", "B2"} : rqIn.check[c] = "pass" /\ WasInvoked(c)

\* a parent whose check raised an error, with both children reported after it
C20_Witness ==
    /\ rqIn.nested /\ ~rqIn.failFast /\ rqIn.check["B"] = "throw"
    /\ rqRun.pc = "returned"
    /\ Titles(rqRun.perRequirement) = <<"A", "B", "B1", "B2", "C">>

\* a parent whose check passed reported unfulfilled for a child
C20_WitnessChild ==
    /\ rqIn.nested /\ rqIn.check["B"] = "pass" /\ rqIn.check["B2"] = "fail"
    /\ rqRun.pc = "returned" /\ ReportedOutcome("B") = "Unfulfilled"

(***************************************************************************)
(* Further properties of the device lifecycle                              *)
(***************************************************************************)
\* the command that installCert has outstanding while its step named name is pending
InstallCommand(d, name) ==
    IF name = "mountAsRootWritableSystem"
    THEN Cmd(d, name, NoPort, FALSE, FALSE, <<>>)
    ELSE Cmd(d, name, port[d], FALSE, FALSE, CertFileName(op[d].cert))

\* C21: installCert issues its steps in a fixed order: the write of the
\* temporary file, the remount, the push of the file {subjectHash}.0 to the
\* trust directory, the chmod of that file; a step is started only when the
\* step before it has completed successfully.
C21_InstallOrder ==
    \A d \in Devices :
        op[d].name = "installCert" =>
            LET n == Len(issued[d])
            IN  /\ n \in 1..Len(InstallSteps)
                /\ [i \in 1..n |-> issued[d][i].cmd] = SubSeq(InstallSteps, 1, n)
                /\ \A i \in 2..n : issued[d][i - 1].st = "ok"
                /\ issued[d][1].st # "pending"
                /\ Outstanding(d) =
                        IF issued[d][n].st = "pending" THEN {InstallCommand(d, issued[d][n].cmd)} ELSE {}

\* an installation whose four steps all succeeded, on a booted device
C21_Witness ==
    \E d \in Devices :
        /\ Returned(d, "installCert") /\ result[d] = "ok" /\ port[d] \in Ports
        /\ [i \in 1..Len(issued[d]) |-> issued[d][i].cmd] = InstallSteps
        /\ AllOk(d)

\* the step in which the start command of device d is rejected
StartRejected(d) == pc[d] = "boot:start" /\ pc'[d] = "idle" /\ issued'[d][1].st = "fail"

\* the step in which the start command of device d resolves
StartResolved(d) == pc[d] = "boot:start" /\ pc'[d] = "idle" /\ issued'[d][1].st = "ok"

\* C22: if the emulator start command fails during boot, or during reboot of
\* a never-booted device, the error reaches the caller and the port of the
\* device keeps the value it had before the call: from the call to its end
\* the port changes only when the start command resolves.
C22_FailedStartKeepsPort ==
    [][\A d \in Devices :
        /\ StartRejected(d) =>
                /\ op[d].name \in {"boot", "reboot"}
                /\ result'[d] = "error"
                /\ port'[d] = port[d]
        /\ (pc[d] = "boot:start" \/ pc'[d] = "boot:start") =>
                (port'[d] # port[d] => StartResolved(d))]_vars

\* a booted device whose second boot failed, the port still that of the first
C22_Witness ==
    \E d \in Devices :
        /\ Returned(d, "boot") /\ result[d] = "error"
        /\ issued[d] = <<Step("startEmulator", "fail")>>
        /\ port[d] \in Ports

\* C23: reboot() on a device whose port is not the sentinel issues the reboot
\* command against the current port, never the emulator start command, and
\* leaves the port unchanged whether the reboot command succeeds or fails.
C23_WarmReboot ==
    [][\A d \in Devices :
        /\ \A w \in BOOLEAN :
            (port[d] # NoPort /\ Reboot(d, w)) =>
                /\ inflight' \ inflight = {Cmd(d, "rebootEmulator", port[d], FALSE, w, <<>>)}
                /\ issued'[d] = <<Step("rebootEmulator", "pending")>>
                /\ port' = port
        /\ (pc[d] = "reboot:reboot" /\ pc'[d] # pc[d]) =>
                /\ pc'[d] = "idle"
                /\ issued'[d] \in {<<Step("rebootEmulator", "ok")>>, <<Step("rebootEmulator", "fail")>>}
                /\ result'[d] = (IF issued'[d][1].st = "ok" THEN "ok" ELSE "error")
                /\ \A c \in inflight' : ~(c.dev = d /\ c.cmd = "startEmulator")
                /\ port' = port]_vars

\* a booted device whose reboot command failed
C23_Witness ==
    \E d \in Devices :
        /\ Returned(d, "reboot") /\ result[d] = "error"
        /\ issued[d] = <<Step("rebootEmulator", "fail")>>
        /\ port[d] \in Ports

\* C24: isCertInstalled issues the root-escalation command before the
\* directory-listing command, and never issues the listing command when the
\* root escalation failed.
C24_RootBeforeLs ==
    \A d \in Devices :
        /\ op[d].name = "isCertInstalled" =>
                /\ Len(issued[d]) \in {1, 2}
                /\ issued[d][1].cmd = "adb root"
                /\ Len(issued[d]) = 2 => (issued[d][2].cmd = "adb ls" /\ issued[d][1].st = "ok")
                /\ issued[d][1].st = "fail" => (Len(issued[d]) = 1 /\ pc[d] = "idle")
        /\ \A c \in Outstanding(d) :
                c.cmd = "adb ls" =>
                    /\ op[d].name = "isCertInstalled"
                    /\ issued[d] = <<Step("adb root", "ok"), Step("adb ls", "pending")>>

\* a probe that ended at the rejected root escalation
C24_Witness ==
    \E d \in Devices :
        /\ Returned(d, "isCertInstalled") /\ result[d] = "false"
        /\ issued[d] = <<Step("adb root", "fail")>>

\* nothing but white space
IsBlank(out) == \A i \in 1..Len(out) : out[i] \in {" ", "\t", "\n", "\r"}

\* the text of target before its first /, the whole of it when it has none
BeforeSlash(target) ==
    LET slashes == {i \in 1..Len(target) : target[i] = "/"}
    IN  IF slashes = {} THEN target
        ELSE SubSeq(target, 1, (CHOOSE i \in slashes : \A j \in slashes : i <= j) - 1)

\* C25: hasApp never raises: when the package-listing command fails it
\* returns false, otherwise it returns true exactly when the output of the
\* command is not blank; the package id given to the command is the part of
\* the target before the first /.
C25_HasAppNeverRaises ==
    [][\A d \in Devices :
        /\ \A t \in Targets :
            HasApp(d, t) =>
                inflight' \ inflight = {Cmd(d, "adb pm list", port[d], FALSE, FALSE, BeforeSlash(t))}
        /\ (pc[d] = "hasApp:list" /\ pc'[d] # pc[d]) =>
                /\ pc'[d] = "idle"
                /\ result'[d] \in {"true", "false"}
                /\ issued'[d][1].st = "fail" => result'[d] = "false"
                /\ \A out \in Outputs :
                        (issued'[d][1].st = "ok" /\ HasAppResolves(d, out)) =>
                            result'[d] = (IF IsBlank(out) THEN "false" ELSE "true")]_vars

\* the listing succeeded and hasApp returned false
C25_Witness ==
    \E d \in Devices :
        /\ Returned(d, "hasApp") /\ result[d] = "false"
        /\ issued[d] = <<Step("adb pm list", "ok")>>

(***************************************************************************)
(* Further properties of CaseInsensitiveStringMap.fromString               *)
(***************************************************************************)
\* the keys of the lines that contain a separator, in lower case
LowerCasedKeys == {ToLowerCase(KeyOf(i)) : i \in SepLines}

\* the lines that contain a separator and have the key k once in lower case
LinesWithKey(k) == {i \in SepLines : ToLowerCase(KeyOf(i)) = k}

Latest(S) == CHOOSE i \in S : \A j \in S : j <= i

\* C26: when several lines passed to fromString have keys that are equal
\* ignoring case, the value of the last such line wins, so the number of
\* entries equals the number of distinct lower-cased keys among the lines
\* that contain a separator.
C26_LastDuplicateWins ==
    Parsed =>
        /\ \A k \in LowerCasedKeys :
                \A i \in LinesWithKey(k) :
                    MapGet(cmap, KeyOf(i)) = [found |-> TRUE, got |-> ValueOf(Latest(LinesWithKey(k)))]
        /\ Cardinality(cmap) = Cardinality(LowerCasedKeys)

\* two lines with the very same key and different values: the second value is kept
C26_Witness ==
    /\ Parsed
    /\ \E k \in LowerCasedKeys :
            /\ Cardinality(LinesWithKey(k)) = 2
            /\ \E i \in LinesWithKey(k) :
                    /\ i # Latest(LinesWithKey(k))
                    /\ ValueOf(i) # ValueOf(Latest(LinesWithKey(k)))
                    /\ MapGet(cmap, KeyOf(i)).got = ValueOf(Latest(LinesWithKey(k)))

====
